---------------------------- MODULE Spec2Model ----------------------------
(***************************************************************************)
(* Model of simple-server.py: a static-file development server.            *)
(*                                                                         *)
(* The script is 47 lines: a request handler class that overrides          *)
(* end_headers (lines 15-20) and main() (lines 22-45).  Everything else is *)
(* inherited from http.server.SimpleHTTPRequestHandler (line 15) and       *)
(* socketserver.TCPServer (line 29); the inherited methods the script      *)
(* calls or is called by are transcribed from CPython's Lib/http/server.py *)
(* and Lib/socketserver.py and carry the library's method names.           *)
(*                                                                         *)
(* main()'s position is the source line of the next statement to execute:  *)
(*   24 os.chdir            26,27 print          29 TCPServer(...)         *)
(*   30..34 print (banner)  38 webbrowser.open   43 httpd.serve_forever()  *)
(*   45 print("Server stopped.")                 0  main() has been left   *)
(***************************************************************************)
EXTENDS Integers, Sequences, FiniteSets, TLC

VARIABLES
    pc,         \* line of main() about to execute, 0 once main() is left
    cwd,        \* the process's working directory
    startDir,   \* the directory main() was invoked from (never written)
    portBusy,   \* another process holds port 8000 (never written)
    binds,      \* number of TCPServer(("", PORT), ...) constructions attempted
    socket,     \* httpd.socket: "none", "listening" or "closed"
    backlog,    \* connections completed by the kernel, not yet accepted
    refused,    \* some connection attempt was refused (no listener)
    browser,    \* what became of webbrowser.open: "notyet" before line 38
    out,        \* stdout: the source lines of the print calls executed
    interrupts, \* the lines at which a KeyboardInterrupt was delivered
    outcome,    \* "running", "returned", or the exception that left main()
    resp        \* the latest connection handled: request and bytes written

vars == <<pc, cwd, startDir, portBusy, binds, socket, backlog, refused,
          browser, out, interrupts, outcome, resp>>

---------------------------------------------------------------------------
(* Bounds and program constants *)

\* Completed connections the model lets wait in the listen queue.
MaxBacklog == 2

ScriptDir == "/app"
CallerDir == "/home/dev"
Dirs == {ScriptDir, CallerDir}

---------------------------------------------------------------------------
(* The file system the handler reads (read-only for the program). *)

Paths == {"/index.html", "/missing.html", "/locked.txt",
          "/assets", "/assets/", "/docs/"}

\* path.endswith("/") / parts.path.endswith('/')
TrailingSlash(p) == p \in {"/assets/", "/docs/"}

\* What translate_path(p) names under directory d.
\*   kind:     "file", "dir" or "none"
\*   readable: open(path, 'rb') succeeds
\*   index:    the directory holds index.html
\*   content:  the bytes of the file (of index.html for a directory)
FS(d, p) ==
    CASE p = "/index.html" ->
           [kind |-> "file", readable |-> TRUE, index |-> FALSE,
            content |-> IF d = ScriptDir THEN "app/index.html bytes"
                                         ELSE "home/index.html bytes"]
      [] p = "/missing.html" ->
           IF d = ScriptDir
           THEN [kind |-> "none", readable |-> FALSE, index |-> FALSE,
                 content |-> ""]
           ELSE [kind |-> "file", readable |-> TRUE, index |-> FALSE,
                 content |-> "home/missing.html bytes"]
      [] p = "/locked.txt" ->
           [kind |-> "file", readable |-> FALSE, index |-> FALSE,
            content |-> "locked.txt bytes"]
      [] p \in {"/assets", "/assets/"} ->
           [kind |-> "dir", readable |-> TRUE, index |-> FALSE,
            content |-> ""]
      [] p = "/docs/" ->
           [kind |-> "dir", readable |-> TRUE, index |-> TRUE,
            content |-> "docs/index.html bytes"]

---------------------------------------------------------------------------
(* Requests a client may send on an accepted connection. *)

Commands == {"GET", "HEAD", "POST"}
Versions == {"HTTP/1.0", "HTTP/1.1", "HTTP/2.0", "FOO/1.0"}
\* Request headers: none of interest; an If-Modified-Since not earlier than
\* the file's mtime (and no If-None-Match); more headers than parse_headers
\* accepts.
HeaderSets == {"plain", "if-modified-since", "too-many"}

\* oversize: the request line is longer than 65536 bytes
\* words:    number of whitespace-separated words on the request line
\*           (3: "GET /p HTTP/1.1"; 2: the HTTP/0.9 form "GET /p")
\* Fields the handler never reads for a given shape are held at one value.
Requests ==
    { r \in [oversize : BOOLEAN, words : 0..4, command : Commands,
             path : Paths, version : Versions, headers : HeaderSets] :
        /\ r.oversize => r.words = 3
        /\ (r.oversize \/ r.words \in {0, 1, 4}) =>
              r.command = "GET" /\ r.path = "/index.html"
        /\ (r.oversize \/ r.words < 3) => r.version = "HTTP/1.0"
        /\ (r.oversize \/ r.words \notin {2, 3}) => r.headers = "plain"
        /\ (r.words = 2 /\ r.command # "GET") =>
              r.headers = "plain" /\ r.path = "/index.html"
        /\ (r.words = 3 /\ r.version \notin {"HTTP/1.0", "HTTP/1.1"}) =>
              r.headers = "plain" /\ r.path = "/index.html"
                                  /\ r.command = "GET" }

---------------------------------------------------------------------------
(* BaseHTTPRequestHandler's response writer, and the script's override.    *)
(*                                                                         *)
(* A handler h is [request_version, command, buffer, wfile, code]:         *)
(*   buffer  self._headers_buffer, lines not yet written                   *)
(*   wfile   what has been written to the client, in order                 *)
(*   code    the status passed to send_response (what log_request logs)    *)
(* A line is [k, v]: a header "k: v", or the status line (k the protocol   *)
(* version, v the status), the blank line CRLF, or the body.               *)

StatusLine(code) == [k |-> "HTTP/1.0", v |-> ToString(code)]
CRLF == [k |-> "", v |-> "\r\n"]
Body(content) == [k |-> "<body>", v |-> content]

CacheControl == [k |-> "Cache-Control", v |-> "no-cache, no-store, must-revalidate"]
Pragma == [k |-> "Pragma", v |-> "no-cache"]
Expires == [k |-> "Expires", v |-> "0"]

NewHandler ==
    [request_version |-> "HTTP/0.9", command |-> "None",
     buffer |-> <<>>, wfile |-> <<>>, code |-> 0]

\* BaseHTTPRequestHandler.send_response_only
send_response_only(h, code) ==
    IF h.request_version # "HTTP/0.9"
    THEN [h EXCEPT !.buffer = Append(@, StatusLine(code))]
    ELSE h

\* BaseHTTPRequestHandler.send_header
send_header(h, keyword, value) ==
    IF h.request_version # "HTTP/0.9"
    THEN [h EXCEPT !.buffer = Append(@, [k |-> keyword, v |-> value])]
    ELSE h

\* BaseHTTPRequestHandler.end_headers (with flush_headers), reached through
\* super().end_headers() on line 20.
super_end_headers(h) ==
    IF h.request_version # "HTTP/0.9"
    THEN [h EXCEPT !.wfile = @ \o Append(h.buffer, CRLF), !.buffer = <<>>]
    ELSE h

\* A variant of end_headers that leaves out line 18.
end_headers_no_pragma(h) ==
    super_end_headers(
        send_header(
            send_header(h, CacheControl.k, CacheControl.v),
            Expires.k, Expires.v))

\* A variant of end_headers that runs line 20 before lines 17-19.
end_headers_super_first(h) ==
    send_header(
        send_header(
            send_header(super_end_headers(h),
                        CacheControl.k, CacheControl.v),
            Pragma.k, Pragma.v),
        Expires.k, Expires.v)

\* MyHTTPRequestHandler.end_headers, lines 16-20.
end_headers(h) ==
    super_end_headers(
        send_header(
            send_header(
                send_header(h, CacheControl.k, CacheControl.v),
                Pragma.k, Pragma.v),
            Expires.k, Expires.v))

\* BaseHTTPRequestHandler.send_response
send_response(h, code) ==
    send_header(
        send_header(
            send_response_only([h EXCEPT !.code = code], code),
            "Server", "SimpleHTTP"),
        "Date", "now")

\* self.wfile.write(body) / copyfile(f, self.wfile)
write_body(h, content) == [h EXCEPT !.wfile = Append(@, Body(content))]

\* BaseHTTPRequestHandler.send_error
send_error(h, code) ==
    LET hasBody == code >= 200 /\ code \notin {204, 205, 304}
        h1 == send_header(send_response(h, code), "Connection", "close")
        h2 == IF hasBody
              THEN send_header(
                       send_header(h1, "Content-Type", "text/html;charset=utf-8"),
                       "Content-Length", "len(body)")
              ELSE h1
        h3 == end_headers(h2)
    IN  IF h.command # "HEAD" /\ hasBody
        THEN write_body(h3, "error page")
        ELSE h3

---------------------------------------------------------------------------
(* Request parsing and the file handler (inherited, line 15). *)

\* The version check of parse_request: "HTTP/<digits>.<digits>" or ValueError.
WellFormedVersion(v) == v \in {"HTTP/1.0", "HTTP/1.1", "HTTP/2.0"}
\* version_number >= (2, 0)
UnsupportedVersion(v) == v = "HTTP/2.0"

\* BaseHTTPRequestHandler.parse_request: [ok, h]; when not ok, h has already
\* sent whatever error response the request gets.  (Expect: 100-continue is
\* never answered: protocol_version is "HTTP/1.0".)
parse_request(h0, r) ==
    LET h == [h0 EXCEPT !.command = "None", !.request_version = "HTTP/0.9"]
        hv == IF r.words >= 3
              THEN [h EXCEPT !.request_version = r.version]
              ELSE h
        hc == [hv EXCEPT !.command = r.command]
    IN  IF r.words = 0
        THEN [ok |-> FALSE, h |-> h]
        ELSE IF r.words >= 3 /\ ~WellFormedVersion(r.version)
        THEN [ok |-> FALSE, h |-> send_error(h, 400)]
        ELSE IF r.words >= 3 /\ UnsupportedVersion(r.version)
        THEN [ok |-> FALSE, h |-> send_error(h, 505)]
        ELSE IF ~(2 <= r.words /\ r.words <= 3)
        THEN [ok |-> FALSE, h |-> send_error(hv, 400)]
        ELSE IF r.words = 2 /\ r.command # "GET"
        THEN [ok |-> FALSE, h |-> send_error(hv, 400)]
        ELSE IF r.headers = "too-many"
        THEN [ok |-> FALSE, h |-> send_error(hc, 431)]
        ELSE [ok |-> TRUE, h |-> hc]

\* SimpleHTTPRequestHandler.list_directory (the directory is listable)
list_directory(h) ==
    LET h1 == send_response(h, 200)
        h2 == send_header(h1, "Content-type", "text/html")
        h3 == send_header(h2, "Content-Length", "len(listing)")
    IN  [f |-> "directory listing", h |-> end_headers(h3)]

\* SimpleHTTPRequestHandler.send_head for request r with self.directory = d:
\* [f, h] where f is the content still to be copied to the client, or
\* "None".
send_head(h, r, d) ==
    LET e == FS(d, r.path)
        redirect ==
            end_headers(
                send_header(
                    send_header(send_response(h, 301), "Location", "path/"),
                    "Content-Length", "0"))
        notModified == end_headers(send_response(h, 304))
        found ==
            end_headers(
                send_header(
                    send_header(
                        send_header(send_response(h, 200),
                                    "Content-type", "guess_type(path)"),
                        "Content-Length", "len(file)"),
                    "Last-Modified", "mtime"))
    IN  IF e.kind = "dir" /\ ~TrailingSlash(r.path)
        THEN [f |-> "None", h |-> redirect]
        ELSE IF e.kind = "dir" /\ ~e.index
        THEN list_directory(h)
        ELSE IF e.kind # "dir" /\ TrailingSlash(r.path)
        THEN [f |-> "None", h |-> send_error(h, 404)]
        ELSE IF e.kind = "none" \/ ~e.readable
        THEN [f |-> "None", h |-> send_error(h, 404)]
        ELSE IF r.headers = "if-modified-since"
        THEN [f |-> "None", h |-> notModified]
        ELSE [f |-> e.content, h |-> found]

\* A variant of do_GET that sends the head and copies nothing.
do_GET_head_only(h, r, d) == send_head(h, r, d).h

\* SimpleHTTPRequestHandler.do_GET
do_GET(h, r, d) ==
    LET s == send_head(h, r, d)
    IN  IF s.f # "None" THEN write_body(s.h, s.f) ELSE s.h

\* SimpleHTTPRequestHandler.do_HEAD
do_HEAD(h, r, d) == send_head(h, r, d).h

\* BaseHTTPRequestHandler.handle_one_request, on a handler constructed with
\* directory = os.getcwd() = d.
handle_one_request(r, d) ==
    LET p == parse_request(NewHandler, r)
    IN  IF r.oversize
        THEN send_error([NewHandler EXCEPT !.request_version = "",
                                           !.command = ""], 414)
        ELSE IF ~p.ok THEN p.h
        ELSE IF p.h.command = "GET" THEN do_GET(p.h, r, d)
        ELSE IF p.h.command = "HEAD" THEN do_HEAD(p.h, r, d)
        ELSE send_error(p.h, 501)

---------------------------------------------------------------------------
(* main(), lines 22-45 *)

\* No connection handled yet (dir "none"; req is a placeholder).
NoResp ==
    [req |-> [oversize |-> FALSE, words |-> 0, command |-> "GET",
              path |-> "/index.html", version |-> "HTTP/1.0",
              headers |-> "plain"],
     dir |-> "none", wfile |-> <<>>, code |-> 0]

PrintLines == {26, 27, 30, 31, 32, 33, 34}

\* The statement after the one on line l, when it completes normally.
NextLine(l) ==
    CASE l = 24 -> 26
      [] l = 26 -> 27
      [] l = 27 -> 29
      [] l = 29 -> 30
      [] l \in 30..33 -> l + 1
      [] l = 34 -> 38
      [] l = 38 -> 43
      [] l = 45 -> 0

\* Lines inside the with block of line 29: leaving main() from one of them
\* runs TCPServer.__exit__.
InWith(l) == l \in 30..45

\* A variant of server_close that leaves the socket as it is.
server_close_noop(s) == s

\* TCPServer.__exit__ -> server_close(): self.socket.close()
server_close(s) == "closed"

\* A variant of chdir that stays in the caller's directory.
chdir_stay(d) == d

\* os.chdir(os.path.dirname(os.path.abspath(__file__))), line 24
chdir(d) == ScriptDir

\* A variant of bind_ok for a socket that may share a taken port.
bind_ok_shared(busy) == TRUE

\* socket.bind(("", PORT)) in TCPServer.__init__ (allow_reuse_address and
\* allow_reuse_port are False): fails when the port is taken.
bind_ok(busy) == ~busy

\* A variant of handler without the try/except of lines 37-40.
handler_no_try(l, exc) ==
    CASE l = 43 /\ exc = "KeyboardInterrupt" -> 45
      [] OTHER -> 0

\* A variant of handler without the except clause of line 44.
handler_no_except(l, exc) ==
    CASE l = 38 -> 43
      [] OTHER -> 0

\* A variant of handler that recovers from an interrupt while serving by
\* going back to the browser launch and the serving loop.
handler_recover(l, exc) ==
    CASE l = 38 -> 43
      [] l = 43 /\ exc = "KeyboardInterrupt" -> 38
      [] OTHER -> 0

\* A variant of handler whose line 39 reads "except Exception:".
handler_except_exception(l, exc) ==
    CASE l = 38 /\ exc # "KeyboardInterrupt" -> 43
      [] l = 43 /\ exc = "KeyboardInterrupt" -> 45
      [] OTHER -> 0

\* Where control resumes when exception exc is raised on line l: the bare
\* except of lines 39-40 catches everything raised on line 38 and falls
\* through to line 43; line 44 catches KeyboardInterrupt raised on line 43
\* and runs line 45; anything else leaves main() (0).
handler(l, exc) ==
    CASE l = 38 -> 43
      [] l = 43 /\ exc = "KeyboardInterrupt" -> 45
      [] OTHER -> 0

Init ==
    /\ pc = 24
    /\ startDir \in Dirs
    /\ cwd = startDir
    /\ portBusy \in BOOLEAN
    /\ binds = 0
    /\ socket = "none"
    /\ backlog = 0
    /\ refused = FALSE
    /\ browser = "notyet"
    /\ out = <<>>
    /\ interrupts = <<>>
    /\ outcome = "running"
    /\ resp = NoResp

\* Control leaves main() from line l, by return or by exception `how`; the
\* connections still queued on a closed socket are reset.
Leave(l, how) ==
    /\ pc' = 0
    /\ outcome' = how
    /\ socket' = IF InWith(l) THEN server_close(socket) ELSE socket
    /\ backlog' = IF socket' = "listening" THEN backlog ELSE 0

\* Exception exc is raised on line l.
Raise(l, exc) ==
    IF handler(l, exc) = 0
    THEN Leave(l, exc)
    ELSE /\ pc' = handler(l, exc)
         /\ UNCHANGED <<socket, backlog, outcome>>

\* line 24
Chdir ==
    /\ pc = 24
    /\ cwd' = chdir(cwd)
    /\ pc' = NextLine(pc)
    /\ UNCHANGED <<startDir, portBusy, binds, socket, backlog, refused,
                   browser, out, interrupts, outcome, resp>>

\* lines 26, 27, 30-34
Banner ==
    /\ pc \in PrintLines
    /\ out' = Append(out, pc)
    /\ pc' = NextLine(pc)
    /\ UNCHANGED <<cwd, startDir, portBusy, binds, socket, backlog, refused,
                   browser, interrupts, outcome, resp>>

\* line 29: TCPServer.__init__ creates the socket, binds and listens; when
\* that raises it closes the socket and re-raises, and main() has no handler.
Bind ==
    /\ pc = 29
    /\ binds' = binds + 1
    /\ IF bind_ok(portBusy)
       THEN /\ socket' = "listening"
            /\ pc' = NextLine(pc)
            /\ UNCHANGED outcome
       ELSE /\ socket' = server_close(socket)
            /\ pc' = 0
            /\ outcome' = "OSError"
    /\ UNCHANGED <<cwd, startDir, portBusy, backlog, refused, browser, out,
                   interrupts, resp>>

\* lines 37-40: webbrowser.open returns True ("opened"), returns False
\* ("nobrowser") or raises ("raised"); its value is not used.
OpenBrowser ==
    /\ pc = 38
    /\ \E result \in {"opened", "nobrowser", "raised"} :
          /\ browser' = result
          /\ IF result = "raised"
             THEN Raise(pc, "Exception")
             ELSE /\ pc' = NextLine(pc)
                  /\ UNCHANGED <<socket, backlog, outcome>>
    /\ UNCHANGED <<cwd, startDir, portBusy, binds, refused, out, interrupts,
                   resp>>

\* line 43, one turn of serve_forever's loop with a connection ready:
\* accept it, construct the handler (directory = os.getcwd()), read the
\* request the client sends, answer it, close the connection.
Serve ==
    /\ pc = 43
    /\ backlog > 0
    /\ backlog' = backlog - 1
    /\ \E r \in Requests :
          LET h == handle_one_request(r, cwd)
          IN  resp' = [req |-> r, dir |-> cwd, wfile |-> h.wfile,
                       code |-> h.code]
    /\ UNCHANGED <<pc, cwd, startDir, portBusy, binds, socket, refused,
                   browser, out, interrupts, outcome>>

\* lines 44-45, then the with block ends and main() returns
Stopped ==
    /\ pc = 45
    /\ out' = Append(out, pc)
    /\ Leave(pc, "returned")
    /\ UNCHANGED <<cwd, startDir, portBusy, binds, refused, browser,
                   interrupts, resp>>

\* Ctrl+C: KeyboardInterrupt raised in main() at its current line.
Interrupt ==
    /\ pc # 0
    /\ interrupts' = Append(interrupts, pc)
    /\ Raise(pc, "KeyboardInterrupt")
    /\ browser' = IF pc = 38 THEN "interrupted" ELSE browser
    /\ UNCHANGED <<cwd, startDir, portBusy, binds, refused, out, resp>>

\* A client (the launched browser or any other) connects to port 8000 of
\* this host while the script's socket listens: the kernel completes the
\* connection and queues it.  (With the queue full the kernel drops the
\* attempt and the client retries: no step.)
ConnectQueued ==
    /\ socket = "listening"
    /\ backlog < MaxBacklog
    /\ backlog' = backlog + 1
    /\ UNCHANGED <<pc, cwd, startDir, portBusy, binds, socket, refused,
                   browser, out, interrupts, outcome, resp>>

\* A client connects while the script's socket does not listen and no other
\* process holds the port: connection refused.
ConnectRefused ==
    /\ socket # "listening"
    /\ ~portBusy
    /\ refused' = TRUE
    /\ UNCHANGED <<pc, cwd, startDir, portBusy, binds, socket, backlog,
                   browser, out, interrupts, outcome, resp>>

Next ==
    \/ Chdir
    \/ Banner
    \/ Bind
    \/ OpenBrowser
    \/ Serve
    \/ Stopped
    \/ Interrupt
    \/ ConnectQueued
    \/ ConnectRefused

Spec == Init /\ [][Next]_vars

---------------------------------------------------------------------------
(* Reading a response off the wire *)

Range(q) == { q[i] : i \in 1..Len(q) }
Last(q) == q[Len(q)]

\* The connection was answered with at least one byte.
Emitted == resp # NoResp /\ resp.wfile # <<>>

\* The status on the response's status line, "none" without a status line.
WireStatus ==
    IF resp.wfile # <<>> /\ resp.wfile[1].k = "HTTP/1.0"
    THEN resp.wfile[1].v
    ELSE "none"

\* The body sent, "None" when no body was sent.
WireBody ==
    IF resp.wfile # <<>> /\ Last(resp.wfile).k = "<body>"
    THEN Last(resp.wfile).v
    ELSE "None"

CacheHeaders == <<CacheControl, Pragma, Expires>>
CacheKeys == { CacheHeaders[i].k : i \in 1..3 }

\* Each of the three headers occurs, and no line with one of the three names
\* has another value or occurs twice.
CarriesCacheHeaders(w) ==
    \A c \in Range(CacheHeaders) :
        Cardinality({ i \in 1..Len(w) : w[i].k = c.k }) = 1 /\ c \in Range(w)

\* parse_request recorded an HTTP/1.x request version before answering (the
\* over-long request line is answered with the version set to "").
VersionRecorded(r) ==
    r.oversize \/ (r.words >= 3 /\ r.version \in {"HTTP/1.0", "HTTP/1.1"})

---------------------------------------------------------------------------
(* C1 *)

---------------------------------------------------------------------------
(* C2 *)

\* C2: within each response the three cache-defeating headers come after
\* every header the base handler emits for it and immediately before the
\* blank line that ends the header block, in the order Cache-Control,
\* Pragma, Expires; nothing but the body follows the blank line.
C2_HeadersLastAndOrdered ==
    resp # NoResp =>
        LET w == resp.wfile
        IN  /\ \A i \in 1..Len(w) :
                  w[i] = CRLF =>
                     /\ i >= 5
                     /\ <<w[i-3], w[i-2], w[i-1]>> = CacheHeaders
                     /\ \A j \in 1..(i-4) :
                           w[j].k \notin CacheKeys \cup {CRLF.k, "<body>"}
                     /\ \A j \in (i+1)..Len(w) : w[j].k = "<body>"
            /\ \A i \in 1..Len(w) :
                  w[i].k \in CacheKeys => \E t \in (i+1)..Len(w) : w[t] = CRLF

\* A 200 response whose base handler emitted five headers of its own.
C2_Witness ==
    /\ Emitted
    /\ WireStatus = "200"
    /\ Len(resp.wfile) = 11
    /\ resp.wfile[6].k = "Last-Modified"
    /\ resp.wfile[7] = CacheControl
    /\ resp.wfile[10] = CRLF

---------------------------------------------------------------------------
(* C3 *)

\* C3: with port 8000 already bound, startup fails at once and for good: the
\* constructor is attempted at most once, its OSError leaves main() right
\* away, the browser launch is never attempted, and main() is never at a
\* line of the with block (listening, serving or shutting down).
C3_BindFailureIsFatal ==
    portBusy =>
        /\ binds <= 1
        /\ browser = "notyet"
        /\ socket # "listening"
        /\ ~InWith(pc)
        /\ resp = NoResp
        /\ binds = 1 => pc = 0 /\ outcome = "OSError" /\ out = <<26, 27>>

\* The second instance has failed to bind.
C3_Witness ==
    portBusy /\ binds = 1 /\ pc = 0 /\ outcome = "OSError"

---------------------------------------------------------------------------
(* C4 *)

\* C4: whatever the browser-launch attempt does (returns True, returns
\* False, raises, is interrupted), the step that ends it prints nothing,
\* propagates nothing, leaves the listening socket and its queue as they
\* are and goes on to serve_forever on line 43.
C4_BrowserFailureIgnored ==
    [][browser' # browser =>
          /\ pc = 38 /\ pc' = 43
          /\ out' = out
          /\ outcome' = "running"
          /\ socket = "listening" /\ socket' = "listening"
          /\ backlog' = backlog
          /\ cwd' = cwd]_vars

\* webbrowser.open raised, and the server went on to answer a request.
C4_Witness ==
    browser = "raised" /\ pc = 43 /\ socket = "listening" /\ WireStatus = "200"

---------------------------------------------------------------------------
(* C5 *)

\* C5: once the latest interrupt was delivered on line 43 (in the serving
\* loop) it has been caught: main() is either about to print the shutdown
\* message, or has printed "Server stopped." as its last output, closed
\* the listening socket and returned normally.
C5_InterruptWhileServing ==
    (interrupts # <<>> /\ Last(interrupts) = 43) =>
        \/ pc = 45 /\ outcome = "running"
        \/ /\ pc = 0
           /\ outcome = "returned"
           /\ Last(out) = 45
           /\ socket = "closed"

\* Interrupted while serving, main() has returned.
C5_Witness ==
    interrupts = <<43>> /\ pc = 0 /\ outcome = "returned" /\ socket = "closed"

---------------------------------------------------------------------------
(* C6 *)

\* The lifecycle state of the specification's state machine: "unbound"
\* until the socket has been bound (and for good when the bind fails or
\* main() is left before it), then by the line main() is at.
Lifecycle ==
    CASE socket = "none" \/ ~bind_ok(portBusy) -> "unbound"
      [] pc = 0 -> "stopped"
      [] pc = 45 -> "shutting down"
      [] pc = 43 -> "serving"
      [] OTHER -> "listening"

Rank(s) ==
    CASE s = "unbound" -> 0
      [] s = "listening" -> 1
      [] s = "serving" -> 2
      [] s = "shutting down" -> 3
      [] s = "stopped" -> 4

InterruptStep == Len(interrupts') = Len(interrupts) + 1

\* C6 as stated: the lifecycle changes only by unbound -> listening (a
\* successful bind), listening -> serving (the connection loop starts),
\* serving -> shutting down (an interrupt while serving) and shutting down
\* -> stopped.
C6_OnlyTheStatedTransitions ==
    [][Lifecycle' # Lifecycle =>
          \/ /\ Lifecycle = "unbound" /\ Lifecycle' = "listening"
             /\ binds' = binds + 1
          \/ Lifecycle = "listening" /\ Lifecycle' = "serving"
          \/ /\ Lifecycle = "serving" /\ Lifecycle' = "shutting down"
             /\ InterruptStep
          \/ Lifecycle = "shutting down" /\ Lifecycle' = "stopped"]_vars

\* C6 (amended): the lifecycle only moves forward along unbound ->
\* listening -> serving -> shutting down -> stopped, so no state is
\* re-entered once left and nothing returns to listening.  It advances one
\* state at a time on a successful bind, on the start of the connection
\* loop, on an interrupt while serving and on the return of main(); the one
\* other transition is an exception leaving main() once the socket is bound
\* (an interrupt while the banner or the shutdown message is printed),
\* which closes the socket and takes the server directly to stopped.
C6_ForwardOnly ==
    [][Lifecycle' # Lifecycle =>
          /\ Rank(Lifecycle') > Rank(Lifecycle)
          /\ \/ /\ Lifecycle = "unbound" /\ Lifecycle' = "listening"
                /\ binds' = binds + 1
             \/ Lifecycle = "listening" /\ Lifecycle' = "serving"
             \/ /\ Lifecycle = "serving" /\ Lifecycle' = "shutting down"
                /\ InterruptStep
             \/ /\ Lifecycle = "shutting down" /\ Lifecycle' = "stopped"
                /\ outcome' = "returned"
             \/ /\ Lifecycle # "unbound" /\ Lifecycle' = "stopped"
                /\ outcome' \notin {"running", "returned"}
                /\ socket' = "closed"]_vars

\* The whole path has been walked: banner, a request served, shutdown.
C6_Witness ==
    /\ Lifecycle = "stopped"
    /\ out = <<26, 27, 30, 31, 32, 33, 34, 45>>
    /\ Emitted

---------------------------------------------------------------------------
(* C7 *)

\* C7: the working directory is the script's directory before the socket
\* is bound and before any request is handled, every request is resolved
\* against the script's directory, and after line 24 the working directory
\* never changes.
C7_ChdirOnceBeforeServing ==
    [][/\ binds' # binds => cwd = ScriptDir
       /\ resp' # resp => cwd = ScriptDir /\ resp'.dir = ScriptDir
       /\ pc # 24 => cwd' = cwd]_vars

\* Started from another directory that does hold missing.html, the server
\* still answers 404 from the script's directory.
C7_Witness ==
    /\ startDir = CallerDir
    /\ resp.dir = ScriptDir
    /\ resp.req.path = "/missing.html"
    /\ resp.code = 404

---------------------------------------------------------------------------
(* C8 *)

\* A GET request with a request line the base handler accepts, in the
\* HTTP/0.9 form or with an HTTP/1.x version.
IsGet(r) ==
    /\ ~r.oversize
    /\ r.command = "GET"
    /\ r.words = 2 \/ (r.words = 3 /\ r.version \in {"HTTP/1.0", "HTTP/1.1"})

\* The status the request was answered with: the one on the status line
\* and, for a response written without status line (HTTP/0.9 form), the one
\* the handler passed to send_response.
Status == IF WireStatus # "none" THEN WireStatus ELSE ToString(resp.code)

\* C8 as stated: for any GET request, a path naming an existing file is
\* answered 200 with the file's bytes as body, and a path naming nothing
\* that exists is answered 404.
C8_AnyGet ==
    (resp.dir # "none" /\ IsGet(resp.req)) =>
        LET e == FS(ScriptDir, resp.req.path)
        IN  /\ e.kind = "file" => Status = "200" /\ WireBody = e.content
            /\ e.kind = "none" => Status = "404"

\* C8 (amended): for any GET request whose headers parse and hold no
\* If-Modified-Since: a path naming an existing file the server can open
\* is answered 200 with the file's bytes as body, and a path naming nothing
\* that exists is answered 404; the status is on the status line whenever
\* the request line carries an HTTP/1.x version.
C8_PlainGet ==
    (resp.dir # "none" /\ IsGet(resp.req) /\ resp.req.headers = "plain") =>
        LET e == FS(ScriptDir, resp.req.path)
            onWire == resp.req.words = 3 => WireStatus = Status
        IN  /\ (e.kind = "file" /\ e.readable) =>
                Status = "200" /\ onWire /\ WireBody = e.content
            /\ e.kind = "none" => Status = "404" /\ onWire

\* index.html of the script's directory served with its own bytes.
C8_Witness ==
    /\ IsGet(resp.req)
    /\ resp.req.version = "HTTP/1.1"
    /\ resp.req.path = "/index.html"
    /\ WireBody = "app/index.html bytes"
    /\ startDir = CallerDir

---------------------------------------------------------------------------
(* C9 *)

\* C9: a KeyboardInterrupt delivered on line 38 is swallowed (nothing is
\* printed, the socket stays open, main() goes on to line 43); one
\* delivered while the banner is printed (lines 30-34) leaves main()
\* uncaught without the shutdown message; and the shutdown message is
\* printed only after an interrupt delivered on line 43.
C9_InterruptOutsideServing ==
    [][/\ (InterruptStep /\ pc = 38) =>
             /\ pc' = 43
             /\ out' = out
             /\ outcome' = "running"
             /\ socket' = "listening"
       /\ (InterruptStep /\ pc \in 30..34) =>
             /\ pc' = 0
             /\ outcome' = "KeyboardInterrupt"
             /\ out' = out
       /\ 45 \in Range(out') => 43 \in Range(interrupts')]_vars

\* The interrupt of the browser launch was swallowed and a request served.
C9_Witness ==
    interrupts = <<38>> /\ browser = "interrupted" /\ pc = 43 /\ Emitted

---------------------------------------------------------------------------
(* C10 *)

\* C10: while the browser launch is attempted the socket listens, so a
\* connection made then is never refused; and whenever main() has been left
\* after a successful bind the listening socket is closed.
C10_ListeningThenClosed ==
    [][/\ pc = 38 =>
             /\ socket = "listening"
             /\ refused' = refused
             /\ backlog' >= backlog
       /\ (pc' = 0 /\ binds' = 1 /\ ~portBusy) => socket' = "closed"]_vars

\* main() was left by an uncaught exception after serving a request.
C10_Witness ==
    /\ pc = 0
    /\ outcome = "KeyboardInterrupt"
    /\ socket = "closed"
    /\ resp.dir # "none"

============================================================================
